---------------------------- MODULE Spec2Model ----------------------------
(***************************************************************************)
(* AnyRouter Proxy: the request transform pipeline of handleRequest, the   *)
(* pure transforms of transform.ts and the SSE relay of forwardRequest.    *)
(*                                                                         *)
(* Strings are sequences of one-character strings, so that startsWith,     *)
(* slice, split, trim, includes and toUpperCase are computed as the code   *)
(* computes them.  A JavaScript value is a tagged tuple:                   *)
(*   <<"undefined">>  <<"null">>  <<"bool", b>>  <<"num", n>>              *)
(*   <<"str", chars>>  <<"arr", seq of values>>                            *)
(*   <<"obj", seq of <<key chars, value>>>>   own enumerable properties,   *)
(*                                            in insertion order           *)
(*   <<"function">>   a function object (a method found on a prototype)    *)
(* and <<"throw">> is the outcome of an evaluation that raises.            *)
(***************************************************************************)
EXTENDS Integers, Sequences, FiniteSets, TLC

VARIABLES
    parsed,       \* handleRequest: JSON.parse(raw), the client's request
    body,         \* the request object the transforms mutate in turn
    pc,           \* position of the handler
    upstreamBody, \* the JSON document written to the upstream request
    clientRes,    \* the client-facing response: status, writes, ended
    upstreamRes,  \* the upstream response: bytes still to arrive, stream state
    buffer,       \* forwardRequest: the SSE accumulation buffer
    decoded,      \* the text the data handler has decoded so far (history)
    resolved,     \* how many times forwardRequest's promise was resolved
    line,         \* transformSSELine: its argument
    transformed   \* transformSSELine: its result

vars == <<parsed, body, pc, upstreamBody, clientRes, upstreamRes, buffer,
          decoded, resolved, line, transformed>>

-----------------------------------------------------------------------------
(* String literals of the source, as character sequences. *)

S_type == <<"t","y","p","e">>
S_name == <<"n","a","m","e">>
S_tools == <<"t","o","o","l","s">>
S_messages == <<"m","e","s","s","a","g","e","s">>
S_content == <<"c","o","n","t","e","n","t">>
S_system == <<"s","y","s","t","e","m">>
S_text == <<"t","e","x","t">>
S_role == <<"r","o","l","e">>
S_user == <<"u","s","e","r">>
S_assistant == <<"a","s","s","i","s","t","a","n","t">>
S_thinking == <<"t","h","i","n","k","i","n","g">>
S_model == <<"m","o","d","e","l">>
S_max_tokens == <<"m","a","x","_","t","o","k","e","n","s">>
S_stream == <<"s","t","r","e","a","m">>
S_tool_use == <<"t","o","o","l","_","u","s","e">>
S_content_block_start == <<"c","o","n","t","e","n","t","_","b","l","o","c","k","_","s","t","a","r","t">>
S_content_block == <<"c","o","n","t","e","n","t","_","b","l","o","c","k">>
S_input == <<"i","n","p","u","t">>
S_budget_tokens == <<"b","u","d","g","e","t","_","t","o","k","e","n","s">>
S_adaptive == <<"a","d","a","p","t","i","v","e">>
S_enabled == <<"e","n","a","b","l","e","d">>
S_cache_control == <<"c","a","c","h","e","_","c","o","n","t","r","o","l">>
S_ephemeral == <<"e","p","h","e","m","e","r","a","l">>
S_todowrite == <<"t","o","d","o","w","r","i","t","e">>
S_TodoWrite == <<"T","o","d","o","W","r","i","t","e">>
S_webfetch == <<"w","e","b","f","e","t","c","h">>
S_WebFetch == <<"W","e","b","F","e","t","c","h">>
S_google_search == <<"g","o","o","g","l","e","_","s","e","a","r","c","h">>
S_Google_Search == <<"G","o","o","g","l","e","_","S","e","a","r","c","h">>
S_web_search == <<"w","e","b","_","s","e","a","r","c","h">>
S_computer == <<"c","o","m","p","u","t","e","r">>
S_text_editor == <<"t","e","x","t","_","e","d","i","t","o","r">>
S_bash == <<"b","a","s","h">>
S_code_execution == <<"c","o","d","e","_","e","x","e","c","u","t","i","o","n">>
S_memory == <<"m","e","m","o","r","y">>
S_web_fetch == <<"w","e","b","_","f","e","t","c","h">>
S_tool_search == <<"t","o","o","l","_","s","e","a","r","c","h">>
S_constructor == <<"c","o","n","s","t","r","u","c","t","o","r">>
S_toString == <<"t","o","S","t","r","i","n","g">>
S_valueOf == <<"v","a","l","u","e","O","f">>
S_hasOwnProperty == <<"h","a","s","O","w","n","P","r","o","p","e","r","t","y">>
S_index == <<"i","n","d","e","x">>
S_sentinel == <<"[","u","n","d","e","f","i","n","e","d","]">>
S_proto == <<"_","_","p","r","o","t","o","_","_">>
S_DONE == <<"[","D","O","N","E","]">>
S_dataColon == <<"d","a","t","a",":">>
S_dataColonSp == <<"d","a","t","a",":"," ">>
S_sysBegin == <<"[","S","y","s","t","e","m"," ","I","n","s","t","r","u","c","t","i","o","n","s","]","\n">>
S_sysEnd == 
    <<"\n","[","E","n","d"," ","S","y","s","t","e","m"," ","I","n","s","t","r","u","c","t","i","o",
    "n","s","]","\n","\n">>
S_LFLF == <<"\n","\n">>
S_LF == <<"\n">>
CLAUDE_46_PATTERNS == 
    << <<"c","l","a","u","d","e","-","o","p","u","s","-","4">>,
       <<"c","l","a","u","d","e","-","4","-","o","p","u","s">>,
       <<"c","l","a","u","d","e","-","o","p","u","s","-","4","-","6">> >>
CLAUDE_THINKING_PATTERNS == 
    << <<"c","l","a","u","d","e","-","3","-","5","-","s","o","n","n","e","t">>,
       <<"c","l","a","u","d","e","-","3",".","5","-","s","o","n","n","e","t">>,
       <<"c","l","a","u","d","e","-","3","-","7","-","s","o","n","n","e","t">>,
       <<"c","l","a","u","d","e","-","3",".","7","-","s","o","n","n","e","t">>,
       <<"c","l","a","u","d","e","-","4">>,
       <<"c","l","a","u","d","e","-","s","o","n","n","e","t","-","4">>,
       <<"c","l","a","u","d","e","-","o","p","u","s","-","4">> >>
BUILTIN_TOOL_TYPES ==
    << S_web_search, S_computer, S_text_editor, S_bash, S_code_execution,
       S_memory, S_web_fetch, S_tool_search >>
S_claudeCodeIdentity == 
    <<"Y","o","u"," ","a","r","e"," ","C","l","a","u","d","e"," ","C","o","d","e",","," ","A","n","t",
    "h","r","o","p","i","c","'","s"," ","o","f","f","i","c","i","a","l"," ","C","L","I"," ","f","o",
    "r"," ","C","l","a","u","d","e",".">>
S_claudeCodePreamble == 
    <<"Y","o","u"," ","a","r","e"," ","a","n"," ","i","n","t","e","r","a","c","t","i","v","e"," ","C",
    "L","I"," ","t","o","o","l"," ","t","h","a","t"," ","h","e","l","p","s"," ","u","s","e","r","s",
    " ","w","i","t","h"," ","s","o","f","t","w","a","r","e"," ","e","n","g","i","n","e","e","r","i",
    "n","g"," ","t","a","s","k","s","."," ","U","s","e"," ","t","h","e"," ","i","n","s","t","r","u",
    "c","t","i","o","n","s"," ","b","e","l","o","w"," ","a","n","d"," ","t","h","e"," ","t","o","o",
    "l","s"," ","a","v","a","i","l","a","b","l","e"," ","t","o"," ","y","o","u"," ","t","o"," ","a",
    "s","s","i","s","t"," ","t","h","e"," ","u","s","e","r",".","\n","\n","#"," ","T","o","n","e",
    " ","a","n","d"," ","s","t","y","l","e","\n","-"," ","O","n","l","y"," ","u","s","e"," ","e",
    "m","o","j","i","s"," ","i","f"," ","t","h","e"," ","u","s","e","r"," ","e","x","p","l","i","c",
    "i","t","l","y"," ","r","e","q","u","e","s","t","s"," ","i","t","."," ","A","v","o","i","d"," ",
    "u","s","i","n","g"," ","e","m","o","j","i","s"," ","i","n"," ","a","l","l"," ","c","o","m","m",
    "u","n","i","c","a","t","i","o","n"," ","u","n","l","e","s","s"," ","a","s","k","e","d",".",
    "\n","-"," ","Y","o","u","r"," ","o","u","t","p","u","t"," ","w","i","l","l"," ","b","e"," ",
    "d","i","s","p","l","a","y","e","d"," ","o","n"," ","a"," ","c","o","m","m","a","n","d"," ","l",
    "i","n","e"," ","i","n","t","e","r","f","a","c","e","."," ","Y","o","u","r"," ","r","e","s","p",
    "o","n","s","e","s"," ","s","h","o","u","l","d"," ","b","e"," ","s","h","o","r","t"," ","a","n",
    "d"," ","c","o","n","c","i","s","e","."," ","Y","o","u"," ","c","a","n"," ","u","s","e"," ","G",
    "i","t","h","u","b","-","f","l","a","v","o","r","e","d"," ","m","a","r","k","d","o","w","n"," ",
    "f","o","r"," ","f","o","r","m","a","t","t","i","n","g",","," ","a","n","d"," ","w","i","l","l",
    " ","b","e"," ","r","e","n","d","e","r","e","d"," ","i","n"," ","a"," ","m","o","n","o","s","p",
    "a","c","e"," ","f","o","n","t"," ","u","s","i","n","g"," ","t","h","e"," ","C","o","m","m","o",
    "n","M","a","r","k"," ","s","p","e","c","i","f","i","c","a","t","i","o","n",".","\n","-"," ",
    "O","u","t","p","u","t"," ","t","e","x","t"," ","t","o"," ","c","o","m","m","u","n","i","c","a",
    "t","e"," ","w","i","t","h"," ","t","h","e"," ","u","s","e","r",";"," ","a","l","l"," ","t","e",
    "x","t"," ","y","o","u"," ","o","u","t","p","u","t"," ","o","u","t","s","i","d","e"," ","o","f",
    " ","t","o","o","l"," ","u","s","e"," ","i","s"," ","d","i","s","p","l","a","y","e","d"," ","t",
    "o"," ","t","h","e"," ","u","s","e","r","."," ","O","n","l","y"," ","u","s","e"," ","t","o","o",
    "l","s"," ","t","o"," ","c","o","m","p","l","e","t","e"," ","t","a","s","k","s","."," ","N","e",
    "v","e","r"," ","u","s","e"," ","t","o","o","l","s"," ","l","i","k","e"," ","B","a","s","h"," ",
    "o","r"," ","c","o","d","e"," ","c","o","m","m","e","n","t","s"," ","a","s"," ","m","e","a","n",
    "s"," ","t","o"," ","c","o","m","m","u","n","i","c","a","t","e"," ","w","i","t","h"," ","t","h",
    "e"," ","u","s","e","r"," ","d","u","r","i","n","g"," ","t","h","e"," ","s","e","s","s","i","o",
    "n",".","\n","\n","#"," ","D","o","i","n","g"," ","t","a","s","k","s","\n","T","h","e"," ","u",
    "s","e","r"," ","w","i","l","l"," ","p","r","i","m","a","r","i","l","y"," ","r","e","q","u","e",
    "s","t"," ","y","o","u"," ","p","e","r","f","o","r","m"," ","s","o","f","t","w","a","r","e"," ",
    "e","n","g","i","n","e","e","r","i","n","g"," ","t","a","s","k","s","."," ","T","h","i","s"," ",
    "i","n","c","l","u","d","e","s"," ","s","o","l","v","i","n","g"," ","b","u","g","s",","," ","a",
    "d","d","i","n","g"," ","n","e","w"," ","f","u","n","c","t","i","o","n","a","l","i","t","y",",",
    " ","r","e","f","a","c","t","o","r","i","n","g"," ","c","o","d","e",","," ","e","x","p","l","a",
    "i","n","i","n","g"," ","c","o","d","e",","," ","a","n","d"," ","m","o","r","e",".","\n","\n",
    "H","e","r","e"," ","i","s"," ","u","s","e","f","u","l"," ","i","n","f","o","r","m","a","t","i",
    "o","n"," ","a","b","o","u","t"," ","t","h","e"," ","e","n","v","i","r","o","n","m","e","n","t",
    " ","y","o","u"," ","a","r","e"," ","r","u","n","n","i","n","g"," ","i","n",":","\n","<","e",
    "n","v",">","\n","P","l","a","t","f","o","r","m",":"," ","w","i","n","3","2","\n","S","h","e",
    "l","l",":"," ","b","a","s","h","\n","<","/","e","n","v",">">>

-----------------------------------------------------------------------------
(* JavaScript values and the runtime operations the code relies on. *)

Undefined == <<"undefined">>
Null == <<"null">>
Func == <<"function">>
Throw == <<"throw">>
Bool(b) == <<"bool", b>>
Num(n) == <<"num", n>>
Str(s) == <<"str", s>>
Arr(a) == <<"arr", a>>
Obj(entries) == <<"obj", entries>>

IsString(v) == v[1] = "str"
IsArray(v) == v[1] = "arr"
IsPlainObject(v) == v[1] = "obj"
\* typeof v === "object" && v !== null
IsObject(v) == v[1] \in {"arr", "obj"}
IsNullish(v) == v[1] \in {"undefined", "null"}

\* ToBoolean: the truthiness every `if (x)`, `!x` and `a && b` of the code tests.
Truthy(v) ==
    CASE v[1] \in {"undefined", "null"} -> FALSE
      [] v[1] = "bool" -> v[2]
      [] v[1] = "num" -> v[2] # 0
      [] v[1] = "str" -> v[2] # <<>>
      [] OTHER -> TRUE

MapSeq(f(_), s) == [i \in 1..Len(s) |-> f(s[i])]

HasOwn(o, key) == IsPlainObject(o) /\ \E i \in 1..Len(o[2]) : o[2][i][1] = key

OwnIndex(o, key) == CHOOSE i \in 1..Len(o[2]) : o[2][i][1] = key

\* o.key for a key that no prototype defines: the own property, or undefined
\* (also on arrays, strings, numbers and booleans). Callers guard null and
\* undefined, on which the read raises.
Get(o, key) == IF HasOwn(o, key) THEN o[2][OwnIndex(o, key)][2] ELSE Undefined

\* o.key = v on a plain object: overwrite in place, or append a new property.
Put(o, key, v) ==
    IF HasOwn(o, key)
    THEN Obj([o[2] EXCEPT ![OwnIndex(o, key)] = <<key, v>>])
    ELSE Obj(Append(o[2], <<key, v>>))

\* The properties every object literal inherits from Object.prototype, read by
\* a computed lookup such as NAME_MAP[name]; these four are methods.
ObjectPrototypeKeys == {S_constructor, S_toString, S_valueOf, S_hasOwnProperty}

StartsWith(s, prefix) ==
    Len(prefix) <= Len(s) /\ SubSeq(s, 1, Len(prefix)) = prefix

Includes(s, pat) ==
    \E i \in 1..(Len(s) - Len(pat) + 1) : SubSeq(s, i, i + Len(pat) - 1) = pat

LowerLetters ==
    <<"a","b","c","d","e","f","g","h","i","j","k","l","m",
      "n","o","p","q","r","s","t","u","v","w","x","y","z">>

UpperLetters ==
    <<"A","B","C","D","E","F","G","H","I","J","K","L","M",
      "N","O","P","Q","R","S","T","U","V","W","X","Y","Z">>

CharToUpper(c) ==
    IF \E i \in 1..26 : LowerLetters[i] = c
    THEN UpperLetters[CHOOSE i \in 1..26 : LowerLetters[i] = c]
    ELSE c

CharToLower(c) ==
    IF \E i \in 1..26 : UpperLetters[i] = c
    THEN LowerLetters[CHOOSE i \in 1..26 : UpperLetters[i] = c]
    ELSE c

ToUpperCase(s) == [i \in 1..Len(s) |-> CharToUpper(s[i])]

ToLowerCase(s) == [i \in 1..Len(s) |-> CharToLower(s[i])]

-----------------------------------------------------------------------------
(* transform.ts: cleanUndefined *)

Sentinel == Str(S_sentinel)

RECURSIVE cleanUndefined(_)

\* The object branch: `cleaned[key] = ...` on a fresh object literal. For the
\* key "__proto__" the assignment runs Object.prototype's setter, which changes
\* the prototype of `cleaned` and creates no own property: the key is absent
\* from Object.entries and from JSON.stringify of the result.
RECURSIVE cleanEntries(_)
cleanEntries(entries) ==
    IF entries = <<>> THEN <<>>
    ELSE LET key == Head(entries)[1]
             value == Head(entries)[2]
             rest == cleanEntries(Tail(entries))
         IN  IF value = Sentinel THEN rest
             ELSE IF key = S_proto THEN rest
             ELSE <<<<key, cleanUndefined(value)>>>> \o rest

cleanUndefined(obj) ==
    IF IsArray(obj)
    THEN Arr(MapSeq(cleanUndefined, SelectSeq(obj[2], LAMBDA item : item # Sentinel)))
    ELSE IF IsPlainObject(obj)
    THEN Obj(cleanEntries(obj[2]))
    ELSE obj

-----------------------------------------------------------------------------
(* The handler's first step, and the specification that applies            *)
(* cleanUndefined to nested value trees.                                   *)

Idle == <<"idle">>

\* handleRequest: const cleaned = cleanUndefined(parsed)
Clean ==
    /\ pc = "parsed"
    /\ body' = cleanUndefined(parsed)
    /\ pc' = "cleaned"
    /\ UNCHANGED <<parsed, upstreamBody, clientRes, upstreamRes, buffer,
                   decoded, resolved, line, transformed>>

MaxDepth == 2

S_ok == <<"o","k">>

TreeScalars == {Sentinel, Str(S_ok), Null}

TreeKeys == {S_name, S_proto}

\* At most one scalar on each side of the nested element.
ScalarRuns == {<<>>} \cup {<<s>> : s \in TreeScalars}

RECURSIVE Trees(_)
Trees(d) ==
    IF d = 0 THEN TreeScalars
    ELSE LET sub == Trees(d - 1)
         IN  TreeScalars \cup {Arr(<<>>), Obj(<<>>)}
             \cup {Arr(pre \o <<t>> \o post) :
                     pre \in ScalarRuns, t \in sub, post \in ScalarRuns}
             \cup {Obj(<<<<k, t>>>>) : k \in TreeKeys, t \in sub}
             \cup {Obj(<<<<k, t>>, <<S_text, s>>>>) :
                     k \in TreeKeys, t \in sub, s \in TreeScalars}
             \cup {Obj(<<<<S_text, s>>, <<k, t>>>>) :
                     k \in TreeKeys, t \in sub, s \in TreeScalars}

InitSanitize ==
    /\ parsed \in Trees(MaxDepth)
    /\ body = Undefined
    /\ pc = "parsed"
    /\ upstreamBody = Idle
    /\ clientRes = Idle
    /\ upstreamRes = Idle
    /\ buffer = Idle
    /\ decoded = Idle
    /\ resolved = 0
    /\ line = Idle
    /\ transformed = Idle

SpecSanitize == InitSanitize /\ [][Clean]_vars

RECURSIVE ContainsSentinel(_)
ContainsSentinel(v) ==
    \/ v = Sentinel
    \/ IsArray(v) /\ \E i \in 1..Len(v[2]) : ContainsSentinel(v[2][i])
    \/ IsPlainObject(v) /\ \E i \in 1..Len(v[2]) : ContainsSentinel(v[2][i][2])

\* The tree with exactly its sentinel-valued keys and sentinel elements
\* removed, at every depth, and everything else kept in order.
RECURSIVE WithoutSentinels(_)
WithoutSentinels(v) ==
    IF IsArray(v)
    THEN Arr(MapSeq(WithoutSentinels, SelectSeq(v[2], LAMBDA item : item # Sentinel)))
    ELSE IF IsPlainObject(v)
    THEN Obj(MapSeq(LAMBDA e : <<e[1], WithoutSentinels(e[2])>>,
                    SelectSeq(v[2], LAMBDA e : e[2] # Sentinel)))
    ELSE v

\* C7: for any nested value tree, the root included, the output of
\* cleanUndefined contains the sentinel "[undefined]" at no depth and is the
\* input with exactly the sentinel-valued keys and sentinel elements removed.
C7_SanitizeExact ==
    pc = "cleaned" =>
        /\ ~ContainsSentinel(body)
        /\ body = WithoutSentinels(parsed)

-----------------------------------------------------------------------------
(* transform.ts: mapName, isBuiltinTool, transformRequestBody *)

NAME_MAP ==
    Obj(<< <<S_todowrite, Str(S_TodoWrite)>>,
           <<S_webfetch, Str(S_WebFetch)>>,
           <<S_google_search, Str(S_Google_Search)>> >>)

\* o[key] for a computed key on an object literal: the own property, else the
\* property inherited from Object.prototype, else undefined.
Lookup(o, key) ==
    IF HasOwn(o, key) THEN Get(o, key)
    ELSE IF key \in ObjectPrototypeKeys THEN Func
    ELSE IF key = S_proto THEN Obj(<<>>)
    ELSE Undefined

mapName(name) ==
    IF ~Truthy(name) \/ ~IsString(name) THEN name
    ELSE IF Truthy(Lookup(NAME_MAP, name[2])) THEN Lookup(NAME_MAP, name[2])
    ELSE Str(<<CharToUpper(name[2][1])>> \o Tail(name[2]))

\* Called on tools that are neither null nor undefined (on those, tool.type raises).
isBuiltinTool(tool) ==
    LET type == Get(tool, S_type)
    IN  IF ~Truthy(type) \/ ~IsString(type) THEN FALSE
        ELSE \E i \in 1..Len(BUILTIN_TOOL_TYPES) :
                 StartsWith(type[2], BUILTIN_TOOL_TYPES[i])

\* The callback of body.tools.forEach.
transformTool(tool) ==
    IF IsNullish(tool) THEN Throw
    ELSE IF isBuiltinTool(tool) THEN tool
    ELSE IF Truthy(Get(tool, S_name))
    THEN Put(tool, S_name, mapName(Get(tool, S_name)))
    ELSE tool

\* The callback of message.content.forEach.
transformBlock(block) ==
    IF ~IsNullish(block) /\ Get(block, S_type) = Str(S_tool_use)
       /\ Truthy(Get(block, S_name))
    THEN Put(block, S_name, mapName(Get(block, S_name)))
    ELSE block

\* The callback of body.messages.forEach.
transformMessage(message) ==
    IF IsNullish(message) \/ ~IsArray(Get(message, S_content)) THEN message
    ELSE Put(message, S_content,
             Arr(MapSeq(transformBlock, Get(message, S_content)[2])))

transformRequestBody(b) ==
    IF ~Truthy(b) \/ ~IsObject(b) THEN b
    ELSE LET tools == Get(b, S_tools)
             newTools == MapSeq(transformTool, tools[2])
             b1 == IF IsArray(tools) THEN Put(b, S_tools, Arr(newTools)) ELSE b
             messages == Get(b1, S_messages)
         IN  IF IsArray(tools) /\ \E i \in 1..Len(newTools) : newTools[i] = Throw
             THEN Throw
             ELSE IF IsArray(messages)
             THEN Put(b1, S_messages, Arr(MapSeq(transformMessage, messages[2])))
             ELSE b1

-----------------------------------------------------------------------------
(* server.ts: CLAUDE_CODE_SYSTEM, injectSystemPrompt *)

CLAUDE_CODE_SYSTEM ==
    Arr(<< Obj(<< <<S_type, Str(S_text)>>,
                  <<S_text, Str(S_claudeCodeIdentity)>>,
                  <<S_cache_control, Obj(<< <<S_type, Str(S_ephemeral)>> >>)>> >>),
           Obj(<< <<S_type, Str(S_text)>>,
                  <<S_text, Str(S_claudeCodePreamble)>>,
                  <<S_cache_control, Obj(<< <<S_type, Str(S_ephemeral)>> >>)>> >>) >>)

Digits == <<"0","1","2","3","4","5","6","7","8","9">>

RECURSIVE NumberToString(_)
NumberToString(n) ==
    IF n < 10 THEN <<Digits[n + 1]>>
    ELSE NumberToString(n \div 10) \o <<Digits[(n % 10) + 1]>>

RECURSIVE Join(_, _)
Join(strs, sep) ==
    IF strs = <<>> THEN <<>>
    ELSE IF Len(strs) = 1 THEN strs[1]
    ELSE strs[1] \o sep \o Join(Tail(strs), sep)

\* ToString, as Array.prototype.join and string concatenation apply it.
RECURSIVE JSToString(_)
JSToString(v) ==
    CASE v[1] = "str" -> v[2]
      [] v[1] = "num" -> NumberToString(v[2])
      [] v[1] = "bool" -> IF v[2] THEN <<"t","r","u","e">> ELSE <<"f","a","l","s","e">>
      [] v[1] = "arr" ->
            Join(MapSeq(LAMBDA e : IF IsNullish(e) THEN <<>> ELSE JSToString(e), v[2]),
                 <<",">>)
      [] v[1] = "obj" ->
            <<"[","o","b","j","e","c","t"," ","O","b","j","e","c","t","]">>
      [] v[1] = "null" -> <<"n","u","l","l">>
      [] OTHER -> <<"u","n","d","e","f","i","n","e","d">>

\* body.system.filter((s) => s.type === "text" && s.text).map((s) => s.text)
systemTexts(segments) ==
    MapSeq(LAMBDA s : Get(s, S_text),
           SelectSeq(segments,
                     LAMBDA s : Get(s, S_type) = Str(S_text) /\ Truthy(Get(s, S_text))))

\* The captured client system prompt: a string, or null.
clientSystemOf(system) ==
    IF ~Truthy(system) THEN Null
    ELSE IF IsString(system) THEN system
    ELSE IF IsArray(system) /\ Len(systemTexts(system[2])) > 0
    THEN Str(Join(MapSeq(JSToString, systemTexts(system[2])), S_LFLF))
    ELSE Null

\* body.messages.findIndex((m) => m.role === "user"): Num(index), Num(0) for
\* -1, or Throw when the callback reaches a null or undefined element first.
RECURSIVE findFirstUser(_, _)
findFirstUser(messages, i) ==
    IF i > Len(messages) THEN Num(0)
    ELSE IF IsNullish(messages[i]) THEN Throw
    ELSE IF Get(messages[i], S_role) = Str(S_user) THEN Num(i)
    ELSE findFirstUser(messages, i + 1)

prependSystem(msg, clientSystem) ==
    LET prefix == S_sysBegin \o clientSystem[2] \o S_sysEnd
        content == Get(msg, S_content)
    IN  IF IsString(content)
        THEN Put(msg, S_content, Str(prefix \o content[2]))
        ELSE IF IsArray(content)
        THEN Put(msg, S_content,
                 Arr(<<Obj(<< <<S_type, Str(S_text)>>, <<S_text, Str(prefix)>> >>)>>
                     \o content[2]))
        ELSE msg

\* Mutant of injectSystemPrompt: the canonical segments are put in front of
\* the client's segments instead of replacing them.
injectSystemPrompt_prepending(b) ==
    IF ~IsPlainObject(b) THEN Throw
    ELSE IF IsArray(Get(b, S_system))
    THEN Put(b, S_system, Arr(CLAUDE_CODE_SYSTEM[2] \o Get(b, S_system)[2]))
    ELSE Put(b, S_system, CLAUDE_CODE_SYSTEM)

injectSystemPrompt(b) ==
    IF IsNullish(b) THEN Throw                       \* body.system raises
    ELSE IF ~IsObject(b) THEN Throw                  \* body.system = ... on a primitive
    ELSE IF IsArray(b) THEN b                        \* a named property JSON.stringify omits
    ELSE LET system == Get(b, S_system)
             clientSystem == clientSystemOf(system)
             b1 == Put(b, S_system, CLAUDE_CODE_SYSTEM)
             messages == Get(b1, S_messages)
             firstUserIdx == findFirstUser(messages[2], 1)
         IN  IF Truthy(system) /\ IsArray(system)
                /\ \E i \in 1..Len(system[2]) : IsNullish(system[2][i])
             THEN Throw                              \* s.type raises in the filter
             ELSE IF Truthy(clientSystem) /\ Truthy(messages) /\ IsArray(messages)
             THEN IF firstUserIdx = Throw THEN Throw
                  ELSE IF firstUserIdx = Num(0) THEN b1
                  ELSE Put(b1, S_messages,
                           Arr([messages[2] EXCEPT ![firstUserIdx[2]] =
                                    prependSystem(messages[2][firstUserIdx[2]], clientSystem)]))
             ELSE b1

-----------------------------------------------------------------------------
(* server.ts: injectThinking, JSON.stringify, the request handler *)

DEFAULT_THINKING_BUDGET == 10000

ThinkingMargin == 4096

isClaude46Model(modelId) ==
    \E i \in 1..Len(CLAUDE_46_PATTERNS) :
        Includes(ToLowerCase(modelId), CLAUDE_46_PATTERNS[i])

isClaudeThinkingModel(modelId) ==
    \E i \in 1..Len(CLAUDE_THINKING_PATTERNS) :
        Includes(ToLowerCase(modelId), CLAUDE_THINKING_PATTERNS[i])

IsDigits(s) == s # <<>> /\ \A i \in 1..Len(s) : \E d \in 1..10 : Digits[d] = s[i]

RECURSIVE DigitsValue(_)
DigitsValue(s) ==
    IF s = <<>> THEN 0
    ELSE 10 * DigitsValue(SubSeq(s, 1, Len(s) - 1))
         + (CHOOSE d \in 0..9 : Digits[d + 1] = s[Len(s)])

\* (body.max_tokens as number) < limit, for a truthy max_tokens: the relational
\* comparison converts its operand to a number (a string of decimal digits to
\* its value, true to 1) and is false when the conversion gives NaN.
LessThan(v, limit) ==
    CASE v[1] = "num" -> v[2] < limit
      [] v[1] = "bool" -> 1 < limit
      [] v[1] = "str" -> IsDigits(v[2]) /\ DigitsValue(v[2]) < limit
      [] v[1] = "arr" -> \/ JSToString(v) = <<>> /\ 0 < limit
                         \/ /\ IsDigits(JSToString(v))
                            /\ DigitsValue(JSToString(v)) < limit
      [] OTHER -> FALSE

\* injectThinking from `const model = body.model` on.
injectByModel(b) ==
    LET model == Get(b, S_model)
    IN  IF ~Truthy(model) THEN b
        ELSE IF ~IsString(model) THEN Throw          \* modelId.toLowerCase raises
        ELSE IF isClaude46Model(model[2])
        THEN Put(b, S_thinking, Obj(<< <<S_type, Str(S_adaptive)>> >>))
        ELSE IF isClaudeThinkingModel(model[2])
        THEN LET b1 == Put(b, S_thinking,
                           Obj(<< <<S_type, Str(S_enabled)>>,
                                  <<S_budget_tokens, Num(DEFAULT_THINKING_BUDGET)>> >>))
                 maxTokens == Get(b1, S_max_tokens)
             IN  IF ~Truthy(maxTokens)
                    \/ LessThan(maxTokens, DEFAULT_THINKING_BUDGET + ThinkingMargin)
                 THEN Put(b1, S_max_tokens,
                          Num(DEFAULT_THINKING_BUDGET + ThinkingMargin))
                 ELSE b1
        ELSE b

\* Mutant of injectThinking: the guard on an existing `thinking` field is lost.
injectThinking_unguarded(b) == injectByModel(b)

injectThinking(b) ==
    IF Get(b, S_thinking) # Undefined THEN b ELSE injectByModel(b)

\* The value JSON.stringify(v) denotes: properties holding undefined or a
\* function are omitted, such array elements become null.
RECURSIVE JSONValue(_)
JSONValue(v) ==
    IF IsArray(v)
    THEN Arr(MapSeq(LAMBDA e : IF e[1] \in {"undefined", "function"}
                               THEN Null ELSE JSONValue(e), v[2]))
    ELSE IF IsPlainObject(v)
    THEN Obj(MapSeq(LAMBDA e : <<e[1], JSONValue(e[2])>>,
                    SelectSeq(v[2], LAMBDA e : e[2][1] \notin {"undefined", "function"})))
    ELSE v

-----------------------------------------------------------------------------
(* handleRequest for POST /v1/messages with a JSON-parseable body: lines   *)
(* 366-374 one statement at a time, then the catch block or the forward.   *)

\* The body sendError writes: {"error": {"type": "proxy_error", "message": ...}}.
ProxyError == <<"proxy_error">>

NoResponse == [status |-> 0, writes |-> <<>>, ends |-> 0]

\* catch (err): sendError(res, 502, ...), the headers not being sent yet.
sendError(status) == [status |-> status, writes |-> <<ProxyError>>, ends |-> 1]

\* One statement `const next = f(body)` of the try block.
Step(from, to, result) ==
    /\ pc = from
    /\ IF result = Throw
       THEN /\ pc' = "caught"
            /\ clientRes' = sendError(502)
            /\ UNCHANGED body
       ELSE /\ pc' = to
            /\ body' = result
            /\ UNCHANGED clientRes
    /\ UNCHANGED <<parsed, upstreamBody, upstreamRes, buffer, decoded, resolved, line,
                   transformed>>

Transform == Step("cleaned", "transformed", transformRequestBody(body))

InjectSystem == Step("transformed", "injected", injectSystemPrompt(body))

InjectThinking == Step("injected", "withThinking", injectThinking(body))

\* body = JSON.stringify(withThinking), written to the upstream request.
Forward ==
    /\ pc = "withThinking"
    /\ upstreamBody' = JSONValue(body)
    /\ pc' = "forwarded"
    /\ UNCHANGED <<parsed, body, clientRes, upstreamRes, buffer, decoded, resolved, line,
                   transformed>>

-----------------------------------------------------------------------------
(* The requests the handler is run on. *)

MaxSegs == 2
MaxMsgs == 2
MaxTools == 2

S_beTerse == <<"B","e"," ","t","e","r","s","e">>
S_hello == <<"h","e","l","l","o">>
S_hi == <<"h","i">>
S_image == <<"i","m","a","g","e">>
S_custom == <<"c","u","s","t","o","m">>
S_my_tool == <<"m","y","_","t","o","o","l">>
S_web_search_20250305 == <<"w","e","b","_","s","e","a","r","c","h","_","2","0","2","5","0","3","0","5">>
M_opus46 == <<"c","l","a","u","d","e","-","o","p","u","s","-","4","-","6">>
M_opus4 == <<"c","l","a","u","d","e","-","o","p","u","s","-","4","-","2","0","2","5","0","5","1","4">>
M_sonnet37 == 
    <<"c","l","a","u","d","e","-","3","-","7","-","s","o","n","n","e","t","-","2","0","2","5","0","2",
    "1","9">>
M_sonnet45 == <<"C","l","a","u","d","e","-","S","o","n","n","e","t","-","4","-","5">>
M_gpt4o == <<"g","p","t","-","4","o">>
M_opus3 == <<"c","l","a","u","d","e","-","3","-","o","p","u","s","-","2","0","2","4","0","2","2","9">>

SeqsUpTo(S, n) == UNION {[1..k -> S] : k \in 0..n}

Field(key, v) == IF v = Undefined THEN <<>> ELSE <<<<key, v>>>>

Request(model, maxTokens, system, messages, tools, thinking) ==
    Obj(Field(S_model, model) \o Field(S_max_tokens, maxTokens)
        \o Field(S_system, system) \o Field(S_messages, messages)
        \o Field(S_tools, tools) \o Field(S_thinking, thinking))

TextSegment(t) == Obj(<< <<S_type, Str(S_text)>>, <<S_text, Str(t)>> >>)

SegmentChoices ==
    {TextSegment(S_beTerse), TextSegment(<<>>), Obj(<< <<S_type, Str(S_image)>> >>), Null}

Systems ==
    {Undefined, Str(<<>>), Str(S_beTerse), Sentinel, Num(5), Obj(<<>>)}
    \cup {Arr(s) : s \in SeqsUpTo(SegmentChoices, MaxSegs)}

Message(role, content) == Obj(<<<<S_role, Str(role)>>>> \o Field(S_content, content))

ToolUseBlock(name) ==
    Obj(<< <<S_type, Str(S_tool_use)>>, <<S_name, Str(name)>>, <<S_input, Obj(<<>>)>> >>)

MessageChoices ==
    {Message(S_user, Str(S_hello)),
     Message(S_user, Arr(<<TextSegment(S_hello)>>)),
     Message(S_user, Undefined),
     Message(S_assistant, Str(S_hi)),
     Null}

MessageLists ==
    {Undefined, Str(S_hello)} \cup {Arr(s) : s \in SeqsUpTo(MessageChoices, MaxMsgs)}

ToolTypes == {Undefined, Str(S_web_search_20250305), Str(S_custom)}

ToolNames == {Undefined, Str(S_todowrite), Str(S_my_tool), Str(S_constructor), Sentinel}

ToolChoices ==
    {Obj(Field(S_type, t) \o Field(S_name, n)) : t \in ToolTypes, n \in ToolNames}
    \cup {Obj(<< <<S_type, Str(S_web_fetch)>>, <<S_name, Str(S_webfetch)>> >>), Null}

ToolLists ==
    {Undefined, Str(S_custom)} \cup {Arr(s) : s \in SeqsUpTo(ToolChoices, MaxTools)}

Models ==
    {Undefined, Num(5), Str(M_opus46), Str(M_opus4), Str(M_sonnet37), Str(M_sonnet45),
     Str(M_gpt4o), Str(M_opus3)}

Thinkings ==
    {Undefined, Null,
     Obj(<< <<S_type, Str(S_enabled)>>, <<S_budget_tokens, Num(2048)>> >>)}

MaxTokenChoices == {Undefined, Null, Num(1024), Num(14096), Num(20000)}

BaseMessages ==
    Arr(<< Message(S_user, Str(S_hello)),
           Message(S_assistant, Arr(<<ToolUseBlock(S_todowrite)>>)) >>)

Requests ==
    {Request(Str(M_gpt4o), Num(1024), s, m, Undefined, Undefined) :
        s \in Systems, m \in MessageLists}
    \cup {Request(Str(M_gpt4o), Num(1024), Str(S_beTerse), BaseMessages, t, Undefined) :
            t \in ToolLists}
    \cup {Request(mo, mt, Str(S_beTerse), BaseMessages, Undefined, th) :
            mo \in Models, mt \in MaxTokenChoices, th \in Thinkings}
    \cup {Null, Str(S_hello), Num(5), Arr(<<Str(S_hello)>>)}

Init ==
    /\ parsed \in Requests
    /\ body = Undefined
    /\ pc = "parsed"
    /\ upstreamBody = Undefined
    /\ clientRes = NoResponse
    /\ upstreamRes = Idle
    /\ buffer = Idle
    /\ decoded = Idle
    /\ resolved = 0
    /\ line = Idle
    /\ transformed = Idle

Next == Clean \/ Transform \/ InjectSystem \/ InjectThinking \/ Forward

Spec == Init /\ [][Next]_vars

-----------------------------------------------------------------------------
(* Claims about the request pipeline, checked under Spec. *)

\* C2: after injectSystemPrompt has run on a request object, `system` is
\* exactly the two fixed canonical segments, whatever the client sent as
\* `system` and whatever the messages are, and this still holds in the body
\* serialized for the upstream after injectThinking.
C2_SystemIsCanonical ==
    IsPlainObject(parsed) =>
        /\ pc \in {"injected", "withThinking", "forwarded"} =>
               Get(body, S_system) = CLAUDE_CODE_SYSTEM
        /\ pc = "forwarded" =>
               /\ Get(upstreamBody, S_system) = CLAUDE_CODE_SYSTEM
               /\ Len(Get(upstreamBody, S_system)[2]) = 2

\* A request whose client sent a segment sequence of full length was forwarded.
C2_Witness ==
    /\ pc = "forwarded"
    /\ IsArray(Get(parsed, S_system))
    /\ Len(Get(parsed, S_system)[2]) >= 2
    /\ Truthy(clientSystemOf(Get(parsed, S_system)))

\* The client's system texts: a non-empty string, or the non-empty texts of
\* the text segments of a segment sequence.
ClientSystemTexts(system) ==
    IF IsString(system) /\ system[2] # <<>> THEN {system[2]}
    ELSE IF IsArray(system)
    THEN {system[2][i][2][OwnIndex(system[2][i], S_text)][2][2] :
            i \in {j \in 1..Len(system[2]) :
                     /\ Get(system[2][j], S_type) = Str(S_text)
                     /\ IsString(Get(system[2][j], S_text))
                     /\ Get(system[2][j], S_text)[2] # <<>>}}
    ELSE {}

\* The text at the start of a message's content: the string itself, or the
\* text of the leading block.
LeadingText(content) ==
    IF IsString(content) THEN content[2]
    ELSE IF IsArray(content) /\ Len(content[2]) > 0
            /\ IsString(Get(content[2][1], S_text))
    THEN Get(content[2][1], S_text)[2]
    ELSE <<>>

HasUserMessage(messages) ==
    IsArray(messages) /\ \E i \in 1..Len(messages[2]) :
                             Get(messages[2][i], S_role) = Str(S_user)

FirstUserMessage(messages) ==
    messages[2][CHOOSE i \in 1..Len(messages[2]) :
                    /\ Get(messages[2][i], S_role) = Str(S_user)
                    /\ \A j \in 1..(i - 1) : Get(messages[2][j], S_role) # Str(S_user)]

\* C3: whenever the incoming request carries non-empty system text, the
\* request forwarded upstream holds that text, wrapped in the begin/end
\* markers, at the start of the content of the first message whose role is
\* "user".  (A system string equal to the sentinel, which the sanitizer
\* removes by design, is left out of the statement.)
C3_ClientSystemNeverLost ==
    pc = "forwarded" /\ IsPlainObject(parsed)
    /\ Get(parsed, S_system) # Sentinel
    /\ ClientSystemTexts(Get(parsed, S_system)) # {}
    => /\ HasUserMessage(Get(upstreamBody, S_messages))
       /\ LET lead == LeadingText(Get(FirstUserMessage(Get(upstreamBody, S_messages)),
                                      S_content))
          IN  /\ StartsWith(lead, S_sysBegin)
              /\ Includes(lead, S_sysEnd)
              /\ \A t \in ClientSystemTexts(Get(parsed, S_system)) : Includes(lead, t)

\* type is a string starting with one of the reserved builtin prefixes.
HasReservedType(tool) ==
    /\ IsString(Get(tool, S_type))
    /\ \E p \in {S_web_search, S_computer, S_text_editor, S_bash, S_code_execution,
                 S_memory, S_web_fetch, S_tool_search} :
           StartsWith(Get(tool, S_type)[2], p)

\* normalize(name) as the name map and the capitalisation rule define it: the
\* mapped form for a key of the map, else the first character uppercased.
Normalized(name) ==
    IF name = Str(S_todowrite) THEN Str(S_TodoWrite)
    ELSE IF name = Str(S_webfetch) THEN Str(S_WebFetch)
    ELSE IF name = Str(S_google_search) THEN Str(S_Google_Search)
    ELSE Str(<<CharToUpper(name[2][1])>> \o Tail(name[2]))

\* C4: in the body forwarded upstream every builtin tool descriptor keeps the
\* name the client sent, and every non-builtin descriptor with a non-empty
\* name has normalize(name).  (Descriptors and names equal to the sentinel,
\* which the sanitizer removes by design, are left out of the statement.)
C4_ToolNames ==
    pc = "forwarded" /\ IsPlainObject(parsed) /\ IsArray(Get(parsed, S_tools))
    /\ (\A i \in 1..Len(Get(parsed, S_tools)[2]) :
            /\ IsPlainObject(Get(parsed, S_tools)[2][i])
            /\ Get(Get(parsed, S_tools)[2][i], S_name) # Sentinel)
    => LET sent == Get(parsed, S_tools)[2]
           out == Get(upstreamBody, S_tools)
       IN  /\ IsArray(out) /\ Len(out[2]) = Len(sent)
           /\ \A i \in 1..Len(sent) :
                  IF HasReservedType(sent[i])
                  THEN Get(out[2][i], S_name) = Get(sent[i], S_name)
                  ELSE IsString(Get(sent[i], S_name)) /\ Get(sent[i], S_name)[2] # <<>>
                       => Get(out[2][i], S_name) = Normalized(Get(sent[i], S_name))

\* C5: if the request entering injectThinking already has a `thinking` field,
\* injectThinking leaves `thinking` and `max_tokens` exactly as they are, for
\* every model identifier.
C5_ThinkingNotOverridden ==
    [][pc = "injected" /\ Get(body, S_thinking) # Undefined
       => /\ pc' = "withThinking"
          /\ Get(body', S_thinking) = Get(body, S_thinking)
          /\ Get(body', S_max_tokens) = Get(body, S_max_tokens)]_vars

\* injectThinking has run on a request with a `thinking` field, a family-B
\* model and a max_tokens below the threshold.
C5_Witness ==
    /\ pc = "withThinking"
    /\ HasOwn(parsed, S_thinking)
    /\ Get(parsed, S_model) = Str(M_sonnet37)
    /\ Get(parsed, S_max_tokens) = Num(1024)

InSeries46(model) == Includes(ToLowerCase(model[2]), M_opus46)

\* C6: with no `thinking` field, claude-opus-4-6 identifiers get
\* {type: "adaptive"} and an untouched max_tokens; the other identifiers
\* matching a family-B pattern get {type: "enabled", budget_tokens: 10000} and
\* max_tokens >= 14096 (a value >= 14096 kept); identifiers matching neither
\* get no thinking field and an unchanged max_tokens.
C6_ThinkingByModel ==
    pc = "forwarded" /\ IsPlainObject(parsed) /\ ~HasOwn(parsed, S_thinking)
    /\ IsString(Get(parsed, S_model)) /\ Get(parsed, S_model)[2] # <<>>
    => LET model == Get(parsed, S_model)
           maxIn == Get(parsed, S_max_tokens)
           maxOut == Get(upstreamBody, S_max_tokens)
           thinking == Get(upstreamBody, S_thinking)
       IN  IF InSeries46(model)
           THEN /\ thinking = Obj(<< <<S_type, Str(S_adaptive)>> >>)
                /\ maxOut = maxIn
           ELSE IF isClaudeThinkingModel(model[2])
           THEN /\ thinking = Obj(<< <<S_type, Str(S_enabled)>>,
                                     <<S_budget_tokens, Num(10000)>> >>)
                /\ maxOut[1] = "num" /\ maxOut[2] >= 14096
                /\ (maxIn[1] = "num" /\ maxIn[2] >= 14096 => maxOut = maxIn)
           ELSE /\ thinking = Undefined
                /\ maxOut = maxIn

-----------------------------------------------------------------------------
(* JSON.parse and JSON.stringify on text, String.prototype.trim and split. *)
(* The texts the model feeds them are over an alphabet of letters, digits, *)
(* punctuation, the space and the line feed; numerals are non-negative     *)
(* decimal integers and the only escapes are \" \\ \/ \n \t \r.            *)

Whitespace == {" ", "\t", "\n", "\r"}

Fail == <<"fail">>

RECURSIVE SkipWs(_, _)
SkipWs(s, i) == IF i <= Len(s) /\ s[i] \in Whitespace THEN SkipWs(s, i + 1) ELSE i

MatchesAt(s, i, word) ==
    i + Len(word) - 1 <= Len(s) /\ SubSeq(s, i, i + Len(word) - 1) = word

Unescaped(c) ==
    CASE c = "n" -> "\n" [] c = "t" -> "\t" [] c = "r" -> "\r" [] OTHER -> c

\* The characters of a string literal from position j on, up to its closing quote.
RECURSIVE ScanString(_, _, _)
ScanString(s, j, acc) ==
    IF j > Len(s) THEN Fail
    ELSE IF s[j] = "\"" THEN <<"ok", Str(acc), j + 1>>
    ELSE IF s[j] = "\\"
    THEN IF j + 1 <= Len(s) /\ s[j + 1] \in {"\"", "\\", "/", "n", "t", "r"}
         THEN ScanString(s, j + 2, Append(acc, Unescaped(s[j + 1])))
         ELSE Fail
    ELSE IF s[j] \in {"\n", "\t", "\r"} THEN Fail
    ELSE ScanString(s, j + 1, Append(acc, s[j]))

RECURSIVE ScanDigits(_, _)
ScanDigits(s, j) ==
    IF j <= Len(s) /\ IsDigits(<<s[j]>>) THEN ScanDigits(s, j + 1) ELSE j

ParseNumber(s, i) ==
    LET j == IF s[i] = "0" THEN i + 1 ELSE ScanDigits(s, i)
    IN  IF j <= Len(s) /\ s[j] \in {".", "e", "E"} THEN Fail
        ELSE <<"ok", Num(DigitsValue(SubSeq(s, i, j - 1))), j>>

RECURSIVE ParseValue(_, _)
RECURSIVE ParseElements(_, _, _)
RECURSIVE ParseMembers(_, _, _)

\* After "[" or ",": the next element, then "," or "]".
ParseElements(s, i, acc) ==
    LET r == ParseValue(s, SkipWs(s, i))
        j == SkipWs(s, r[3])
    IN  IF r[1] # "ok" \/ j > Len(s) THEN Fail
        ELSE IF s[j] = "," THEN ParseElements(s, j + 1, Append(acc, r[2]))
        ELSE IF s[j] = "]" THEN <<"ok", Arr(Append(acc, r[2])), j + 1>>
        ELSE Fail

\* After "{" or ",": the next "key": value, then "," or "}". A repeated key
\* keeps its first position and takes the last value.
ParseMembers(s, i, acc) ==
    LET k == SkipWs(s, i)
        key == IF k <= Len(s) /\ s[k] = "\"" THEN ScanString(s, k + 1, <<>>) ELSE Fail
        c == SkipWs(s, key[3])
        r == IF c <= Len(s) /\ s[c] = ":" THEN ParseValue(s, SkipWs(s, c + 1)) ELSE Fail
        j == SkipWs(s, r[3])
    IN  IF key[1] # "ok" THEN Fail
        ELSE IF r[1] # "ok" \/ j > Len(s) THEN Fail
        ELSE IF s[j] = "," THEN ParseMembers(s, j + 1, Put(acc, key[2][2], r[2]))
        ELSE IF s[j] = "}" THEN <<"ok", Put(acc, key[2][2], r[2]), j + 1>>
        ELSE Fail

ParseValue(s, i) ==
    IF i > Len(s) THEN Fail
    ELSE IF s[i] = "{"
    THEN IF SkipWs(s, i + 1) <= Len(s) /\ s[SkipWs(s, i + 1)] = "}"
         THEN <<"ok", Obj(<<>>), SkipWs(s, i + 1) + 1>>
         ELSE ParseMembers(s, i + 1, Obj(<<>>))
    ELSE IF s[i] = "["
    THEN IF SkipWs(s, i + 1) <= Len(s) /\ s[SkipWs(s, i + 1)] = "]"
         THEN <<"ok", Arr(<<>>), SkipWs(s, i + 1) + 1>>
         ELSE ParseElements(s, i + 1, <<>>)
    ELSE IF s[i] = "\"" THEN ScanString(s, i + 1, <<>>)
    ELSE IF IsDigits(<<s[i]>>) THEN ParseNumber(s, i)
    ELSE IF MatchesAt(s, i, <<"t","r","u","e">>) THEN <<"ok", Bool(TRUE), i + 4>>
    ELSE IF MatchesAt(s, i, <<"f","a","l","s","e">>) THEN <<"ok", Bool(FALSE), i + 5>>
    ELSE IF MatchesAt(s, i, <<"n","u","l","l">>) THEN <<"ok", Null, i + 4>>
    ELSE Fail

\* JSON.parse(text): <<"ok", value>>, or Fail for the SyntaxError.
JSONparse(s) ==
    LET r == ParseValue(s, SkipWs(s, 1))
    IN  IF r[1] = "ok" /\ SkipWs(s, r[3]) = Len(s) + 1 THEN <<"ok", r[2]>> ELSE Fail

Escaped(c) ==
    CASE c = "\"" -> <<"\\", "\"">>
      [] c = "\\" -> <<"\\", "\\">>
      [] c = "\n" -> <<"\\", "n">>
      [] c = "\t" -> <<"\\", "t">>
      [] c = "\r" -> <<"\\", "r">>
      [] OTHER -> <<c>>

Quote(s) == <<"\"">> \o Join(MapSeq(Escaped, s), <<>>) \o <<"\"">>

\* The text of a JSON value.
RECURSIVE Render(_)
Render(v) ==
    CASE v[1] = "null" -> <<"n","u","l","l">>
      [] v[1] = "bool" -> JSToString(v)
      [] v[1] = "num" -> NumberToString(v[2])
      [] v[1] = "str" -> Quote(v[2])
      [] v[1] = "arr" -> <<"[">> \o Join(MapSeq(Render, v[2]), <<",">>) \o <<"]">>
      [] v[1] = "obj" ->
            <<"{">>
            \o Join(MapSeq(LAMBDA e : Quote(e[1]) \o <<":">> \o Render(e[2]), v[2]), <<",">>)
            \o <<"}">>

JSONstringify(v) == Render(JSONValue(v))

RECURSIVE TrimStart(_)
TrimStart(s) == IF s # <<>> /\ Head(s) \in Whitespace THEN TrimStart(Tail(s)) ELSE s

RECURSIVE TrimEnd(_)
TrimEnd(s) ==
    IF s # <<>> /\ s[Len(s)] \in Whitespace THEN TrimEnd(SubSeq(s, 1, Len(s) - 1)) ELSE s

Trim(s) == TrimEnd(TrimStart(s))

\* The first index >= i at which sep occurs in s, or 0.
IndexOf(s, sep, i) ==
    LET last == Len(s) - Len(sep) + 1
        At(j) == SubSeq(s, j, j + Len(sep) - 1) = sep
    IN  IF \E j \in i..last : At(j)
        THEN CHOOSE j \in i..last : At(j) /\ \A k \in i..(j - 1) : ~At(k)
        ELSE 0

\* s.split(sep) for a non-empty separator.
RECURSIVE Split(_, _)
Split(s, sep) ==
    LET i == IndexOf(s, sep, 1)
    IN  IF i = 0 THEN <<s>>
        ELSE <<SubSeq(s, 1, i - 1)>> \o Split(SubSeq(s, i + Len(sep), Len(s)), sep)

-----------------------------------------------------------------------------
(* transform.ts: transformSSELine *)

\* The try block after a successful JSON.parse.
rewriteSSEData(l, data) ==
    IF IsNullish(data) THEN l                        \* data.type raises: caught
    ELSE LET block == Get(data, S_content_block)
         IN  IF /\ Get(data, S_type) = Str(S_content_block_start)
                /\ ~IsNullish(block)
                /\ Get(block, S_type) = Str(S_tool_use)
                /\ Truthy(Get(block, S_name))
             THEN S_dataColonSp
                  \o JSONstringify(Put(data, S_content_block,
                                       Put(block, S_name, mapName(Get(block, S_name)))))
             ELSE l

transformSSELine(l) ==
    IF ~StartsWith(l, S_dataColon) THEN l
    ELSE LET jsonStr == Trim(SubSeq(l, 6, Len(l)))
         IN  IF jsonStr = <<>> \/ jsonStr = S_DONE THEN l
             ELSE IF JSONparse(jsonStr) = Fail THEN l
             ELSE rewriteSSEData(l, JSONparse(jsonStr)[2])

-----------------------------------------------------------------------------
(* The specification that applies transformSSELine to single lines. *)

L_toolUseHead == 
    <<"{","\"","t","y","p","e","\"",":","\"","c","o","n","t","e","n","t","_","b","l","o","c","k","_",
    "s","t","a","r","t","\"",",","\"","i","n","d","e","x","\"",":","0",",","\"","c","o","n","t","e",
    "n","t","_","b","l","o","c","k","\"",":","{","\"","t","y","p","e","\"",":","\"","t","o","o","l",
    "_","u","s","e","\"",",","\"","i","d","\"",":","\"","t","1","\"",",","\"","n","a","m","e","\"",
    ":">>
L_toolUseTail == <<",","\"","i","n","p","u","t","\"",":","{","}","}","}">>
L_toolUseNoName == 
    <<"{","\"","t","y","p","e","\"",":","\"","c","o","n","t","e","n","t","_","b","l","o","c","k","_",
    "s","t","a","r","t","\"",",","\"","i","n","d","e","x","\"",":","0",",","\"","c","o","n","t","e",
    "n","t","_","b","l","o","c","k","\"",":","{","\"","t","y","p","e","\"",":","\"","t","o","o","l",
    "_","u","s","e","\"",",","\"","i","d","\"",":","\"","t","1","\"","}","}">>
L_toolUseSpaced == 
    <<"{","\"","t","y","p","e","\"",":"," ","\"","c","o","n","t","e","n","t","_","b","l","o","c","k",
    "_","s","t","a","r","t","\"",","," ","\"","c","o","n","t","e","n","t","_","b","l","o","c","k",
    "\"",":"," ","{","\"","t","y","p","e","\"",":"," ","\"","t","o","o","l","_","u","s","e","\"",
    ","," ","\"","n","a","m","e","\"",":"," ","\"","m","y","_","t","o","o","l","\"","}","}">>
L_textStart == 
    <<"{","\"","t","y","p","e","\"",":","\"","c","o","n","t","e","n","t","_","b","l","o","c","k","_",
    "s","t","a","r","t","\"",",","\"","i","n","d","e","x","\"",":","0",",","\"","c","o","n","t","e",
    "n","t","_","b","l","o","c","k","\"",":","{","\"","t","y","p","e","\"",":","\"","t","e","x","t",
    "\"",",","\"","t","e","x","t","\"",":","\"","\"","}","}">>
L_textDelta == 
    <<"{","\"","t","y","p","e","\"",":","\"","c","o","n","t","e","n","t","_","b","l","o","c","k","_",
    "d","e","l","t","a","\"",",","\"","d","e","l","t","a","\"",":","{","\"","t","y","p","e","\"",
    ":","\"","t","e","x","t","_","d","e","l","t","a","\"",",","\"","t","e","x","t","\"",":","\"",
    "h","i","\"","}","}">>
L_ping == <<"{","\"","t","y","p","e","\"",":"," ","\"","p","i","n","g","\"","}">>
L_truncated == 
    <<"{","\"","t","y","p","e","\"",":","\"","c","o","n","t","e","n","t","_","b","l","o","c","k","_",
    "s","t","a","r","t","\"",",","\"","c","o","n","t","e","n","t","_","b","l","o","c","k","\"",":",
    "{","\"","t","y","p","e","\"",":","\"","t","o","o","l","_","u","s","e","\"",",","\"","n","a",
    "m","e","\"",":","\"","b","a","s","h","\"">>
L_nullBlock == 
    <<"{","\"","t","y","p","e","\"",":","\"","c","o","n","t","e","n","t","_","b","l","o","c","k","_",
    "s","t","a","r","t","\"",",","\"","c","o","n","t","e","n","t","_","b","l","o","c","k","\"",":",
    "n","u","l","l","}">>
L_otherEvent == 
    <<"{","\"","t","y","p","e","\"",":","\"","m","e","s","s","a","g","e","_","s","t","o","p","\"",",",
    "\"","c","o","n","t","e","n","t","_","b","l","o","c","k","\"",":","{","\"","t","y","p","e","\"",
    ":","\"","t","o","o","l","_","u","s","e","\"",",","\"","n","a","m","e","\"",":","\"","b","a",
    "s","h","\"","}","}">>
L_eventField == <<"e","v","e","n","t",":"," ">>

S_Read == <<"R","e","a","d">>

ToolUseStart(nameText) == L_toolUseHead \o nameText \o L_toolUseTail

Payloads ==
    {ToolUseStart(Quote(n)) :
        n \in {S_todowrite, S_bash, S_Read, S_constructor, <<>>}}
    \cup {ToolUseStart(<<"5">>), ToolUseStart(<<"n","u","l","l">>),
          L_toolUseNoName, L_toolUseSpaced, L_textStart, L_textDelta, L_ping,
          L_truncated, L_nullBlock, L_otherEvent, S_DONE, <<>>,
          <<"n","u","l","l">>, <<"5">>, Quote(S_tool_use), <<"[","1",",","2","]">>}

LinePrefixes == {S_dataColonSp, S_dataColon, L_eventField, <<":">>, <<>>}

LineSuffixes == {<<>>, <<" ">>}

Lines == {p \o payload \o s : p \in LinePrefixes, payload \in Payloads, s \in LineSuffixes}

InitLine ==
    /\ line \in Lines
    /\ transformed = Undefined
    /\ pc = "line"
    /\ parsed = Idle
    /\ body = Idle
    /\ upstreamBody = Idle
    /\ clientRes = Idle
    /\ upstreamRes = Idle
    /\ buffer = Idle
    /\ decoded = Idle
    /\ resolved = 0

\* const transformed = transformSSELine(line)
ApplyLine ==
    /\ pc = "line"
    /\ transformed' = transformSSELine(line)
    /\ pc' = "done"
    /\ UNCHANGED <<parsed, body, upstreamBody, clientRes, upstreamRes, buffer,
                   decoded, resolved, line>>

SpecLine == InitLine /\ [][ApplyLine]_vars

\* The payload of a `data:` line: what follows the field name, trimmed.
PayloadOf(l) == Trim(SubSeq(l, 6, Len(l)))

\* A `data:` line whose payload parses as JSON with type "content_block_start"
\* and a content_block of type "tool_use" with a present non-empty name.
IsToolUseStartLine(l) ==
    /\ StartsWith(l, S_dataColon)
    /\ JSONparse(PayloadOf(l))[1] = "ok"
    /\ LET data == JSONparse(PayloadOf(l))[2]
       IN  /\ IsPlainObject(data)
           /\ Get(data, S_type) = Str(S_content_block_start)
           /\ IsPlainObject(Get(data, S_content_block))
           /\ Get(Get(data, S_content_block), S_type) = Str(S_tool_use)
           /\ Truthy(Get(Get(data, S_content_block), S_name))

\* The payload with only content_block.name changed, to normalize(name).
WithNormalizedName(data) ==
    LET block == Get(data, S_content_block)
        name == Get(block, S_name)
    IN  Put(data, S_content_block,
            Put(block, S_name, IF IsString(name) THEN Normalized(name) ELSE name))

\* C8: transformSSELine rewrites a line if and only if it is a tool_use
\* content_block_start data line with a non-empty name, and then the only
\* change to the payload is the name becoming normalize(name); every other
\* line is returned character for character.
C8_LineRule ==
    pc = "done" =>
        IF IsToolUseStartLine(line)
        THEN /\ StartsWith(transformed, S_dataColon)
             /\ JSONparse(PayloadOf(transformed))
                    = <<"ok", WithNormalizedName(JSONparse(PayloadOf(line))[2])>>
        ELSE transformed = line

-----------------------------------------------------------------------------
(* server.ts: forwardRequest, the SSE branch of the response callback *)

\* Bytes are the ASCII characters themselves and the two bytes of one
\* two-byte UTF-8 character; text holds that character, or U+FFFD.
LeadByte == "0xC3"
ContinuationByte == "0xA9"
TwoByteChar == "U+00E9"
ReplacementChar == "U+FFFD"

\* chunk.toString("utf-8"): every chunk is decoded on its own, and a byte that
\* is no complete character within the chunk decodes to U+FFFD.
DecodeUtf8(bytes) ==
    LET n == Len(bytes)
        Paired(j) == bytes[j] = LeadByte /\ j < n /\ bytes[j + 1] = ContinuationByte
        chars == [j \in 1..n |->
                    IF Paired(j) THEN TwoByteChar
                    ELSE IF bytes[j] = ContinuationByte /\ j > 1 /\ Paired(j - 1) THEN ""
                    ELSE IF bytes[j] \in {LeadByte, ContinuationByte} THEN ReplacementChar
                    ELSE bytes[j]]
    IN  SelectSeq(chars, LAMBDA c : c # "")

\* part.split("\n").map(transformSSELine).join("\n") + "\n\n"
transformPart(part) ==
    Join(MapSeq(transformSSELine, Split(part, S_LF)), S_LF) \o S_LFLF

\* Mutant of onData: the text after the last delimiter is dropped instead of
\* being kept for the next chunk.
onData_droppingRemainder(buf, chunk) ==
    LET parts == Split(buf \o DecodeUtf8(chunk), S_LFLF)
    IN  [buffer |-> <<>>,
         writes |-> MapSeq(transformPart, SubSeq(parts, 1, Len(parts) - 1))]

\* upstreamRes.on("data"): the new buffer and the writes to the client.
onData(buf, chunk) ==
    LET parts == Split(buf \o DecodeUtf8(chunk), S_LFLF)
    IN  [buffer |-> parts[Len(parts)],
         writes |-> MapSeq(transformPart, SubSeq(parts, 1, Len(parts) - 1))]

\* upstreamRes.on("end"): the flush of the remainder, clientRes.end(), resolve().
onEnd(buf) ==
    [writes |-> IF Trim(buf) # <<>> THEN <<transformPart(buf)>> ELSE <<>>,
     ends |-> 1, resolves |-> 1]

\* Mutant of onError: the handler is a copy of the end handler.
onError_flushing(buf) == onEnd(buf)

\* upstreamRes.on("error"): clientRes.end(), resolve().
onError(buf) == [writes |-> <<>>, ends |-> 1, resolves |-> 1]

MaxChunk == 3

\* The sizes of the next chunk: one byte, MaxChunk bytes, or all that remains.
ChunkSizes(remaining) == {k \in {1, MaxChunk} : k <= remaining} \cup {remaining}

Data ==
    /\ upstreamRes.state = "flowing"
    /\ upstreamRes.pos < Len(upstreamRes.bytes)
    /\ \E k \in ChunkSizes(Len(upstreamRes.bytes) - upstreamRes.pos) :
         LET chunk == SubSeq(upstreamRes.bytes, upstreamRes.pos + 1, upstreamRes.pos + k)
             r == onData(buffer, chunk)
         IN  /\ buffer' = r.buffer
             /\ clientRes' = [clientRes EXCEPT !.writes = @ \o r.writes]
             /\ decoded' = decoded \o DecodeUtf8(chunk)
             /\ upstreamRes' = [upstreamRes EXCEPT !.pos = @ + k]
    /\ UNCHANGED <<parsed, body, pc, upstreamBody, resolved, line, transformed>>

\* The handler of "end" or of "error" runs; the stream emits nothing after it.
Finish(state, r) ==
    /\ clientRes' = [clientRes EXCEPT !.writes = @ \o r.writes, !.ends = @ + r.ends]
    /\ resolved' = resolved + r.resolves
    /\ upstreamRes' = [upstreamRes EXCEPT !.state = state]
    /\ UNCHANGED <<parsed, body, pc, upstreamBody, buffer, decoded, line, transformed>>

End ==
    /\ upstreamRes.state = "flowing"
    /\ upstreamRes.pos = Len(upstreamRes.bytes)
    /\ Finish("ended", onEnd(buffer))

Error ==
    /\ upstreamRes.state = "flowing"
    /\ Finish("errored", onError(buffer))

-----------------------------------------------------------------------------
(* The upstream streams the relay is run on. *)

MaxEvents == 2

E_toolUse == 
    <<"i","d",":"," ","1","\n","d","a","t","a",":"," ","{","\"","t","y","p","e","\"",":","\"","c","o",
    "n","t","e","n","t","_","b","l","o","c","k","_","s","t","a","r","t","\"",",","\"","c","o","n",
    "t","e","n","t","_","b","l","o","c","k","\"",":","{","\"","t","y","p","e","\"",":","\"","t","o",
    "o","l","_","u","s","e","\"",",","\"","n","a","m","e","\"",":","\"","b","a","s","h","\"","}",
    "}">>
E_keepAlive == <<"\n",":"," ","o","k">>
E_done == <<"d","a","t","a",":"," ","[","D","O","N","E","]">>
E_textHead == <<"d","a","t","a",":"," ","{","\"","t","e","x","t","\"",":","\"">>
E_textTail == <<"\"","}">>

E_text == E_textHead \o <<LeadByte, ContinuationByte>> \o E_textTail

EventChoices == {E_toolUse, E_text, E_keepAlive}

\* What follows the last delimiter: nothing, an event with no delimiter, or
\* a lone line feed.
TailChoices == {<<>>, E_done, S_LF}

Streams ==
    {Join(MapSeq(LAMBDA e : e \o S_LFLF, events), <<>>) \o tail :
        events \in SeqsUpTo(EventChoices, MaxEvents), tail \in TailChoices}

\* The response callback has run: the status line and the SSE headers are
\* written, the buffer is empty and no handler has run yet.
InitRelay ==
    /\ upstreamRes \in [bytes : Streams, pos : {0}, state : {"flowing"}]
    /\ clientRes = [status |-> 200, writes |-> <<>>, ends |-> 0]
    /\ buffer = <<>>
    /\ decoded = <<>>
    /\ resolved = 0
    /\ pc = "relay"
    /\ parsed = Idle
    /\ body = Idle
    /\ upstreamBody = Idle
    /\ line = Idle
    /\ transformed = Idle

NextRelay == Data \/ End \/ Error

SpecRelay == InitRelay /\ [][NextRelay]_vars

-----------------------------------------------------------------------------
(* Claims about the SSE relay *)

\* The bytes that have been delivered so far.
Arrived == SubSeq(upstreamRes.bytes, 1, upstreamRes.pos)

\* The number of blank-line delimiters that have fully arrived.
CompletedCount == Len(Split(Arrived, S_LFLF)) - 1

\* The text between the delimiters, as the data handler decoded it.
DecodedEvents == Split(decoded, S_LFLF)

\* C1: after a normal stream end, the events written to the client are those
\* of the run that delivers the same bytes as one single chunk, whatever the
\* chunk boundaries were.
C1_ChunkingInvariance ==
    upstreamRes.state = "ended" =>
        clientRes.writes =
            LET whole == onData(<<>>, upstreamRes.bytes)
            IN  whole.writes \o onEnd(whole.buffer).writes

\* C9: after every chunk the client has been written one event per delimiter
\* that has arrived, in the order of the delimiters, each once (only the flush
\* at the stream's end adds a write), and every written event has the lines of
\* the upstream event, in their order, each passed through the per-line rule.
C9_IncrementalInOrder ==
    /\ Len(clientRes.writes) >= CompletedCount
    /\ upstreamRes.state # "ended" => Len(clientRes.writes) = CompletedCount
    /\ \A i \in 1..CompletedCount :
         LET inLines == Split(DecodedEvents[i], S_LF)
             outLines == Split(clientRes.writes[i], S_LF)
         IN  /\ Len(outLines) = Len(inLines) + 2
             /\ \A k \in 1..Len(inLines) : outLines[k] = transformSSELine(inLines[k])
             /\ outLines[Len(inLines) + 1] = <<>>
             /\ outLines[Len(inLines) + 2] = <<>>

\* Two different events have been written, a later event has partly arrived
\* and the stream is still being delivered.
C9_Witness ==
    /\ upstreamRes.state = "flowing"
    /\ upstreamRes.pos < Len(upstreamRes.bytes)
    /\ Len(clientRes.writes) = 2
    /\ clientRes.writes[1] # clientRes.writes[2]
    /\ buffer # <<>>

\* C10: once the upstream response has raised an error, the client's stream
\* is ended once, the completion is signalled once, the status stays the one
\* of the stream's head, and the client holds the events completed before the
\* error and nothing else: no flush of the partial event, no error event.
C10_ErrorEndsSilently ==
    upstreamRes.state = "errored" =>
        /\ clientRes.ends = 1
        /\ resolved = 1
        /\ clientRes.status = 200
        /\ Len(clientRes.writes) = CompletedCount
        /\ \A i \in 1..CompletedCount :
             clientRes.writes[i] = transformPart(DecodedEvents[i])

\* The error arrived while a partial event was buffered, after a whole event
\* had been written.
C10_Witness ==
    /\ upstreamRes.state = "errored"
    /\ Trim(buffer) # <<>>
    /\ Len(clientRes.writes) >= 1

-----------------------------------------------------------------------------
(* Claims about the request pipeline as a whole *)

\* C11: no step of the chain cleanUndefined -> transformRequestBody ->
\* injectSystemPrompt -> injectThinking raises, whatever the shape of the
\* parsed body: the proxy never answers the request itself, and a body whose
\* root is no mapping is forwarded as it was parsed.
C11_NothingFatal ==
    /\ pc # "caught"
    /\ clientRes = NoResponse
    /\ pc = "forwarded" /\ ~IsPlainObject(parsed) => upstreamBody = JSONValue(parsed)

-----------------------------------------------------------------------------
(* The bytes of the relay's writes *)

\* clientRes.write(string): the string is encoded as UTF-8. The text is split
\* in halves so that the evaluation stays shallow.
RECURSIVE EncodeUtf8(_)
EncodeUtf8(text) ==
    IF text = <<>> THEN <<>>
    ELSE IF Len(text) = 1
    THEN CASE text[1] = TwoByteChar -> <<LeadByte, ContinuationByte>>
           [] text[1] = ReplacementChar -> <<"0xEF", "0xBF", "0xBD">>
           [] OTHER -> text
    ELSE LET half == Len(text) \div 2
         IN  EncodeUtf8(SubSeq(text, 1, half)) \o EncodeUtf8(SubSeq(text, half + 1, Len(text)))

\* All bytes written to the client so far, in the order of the writes.
WrittenBytes == EncodeUtf8(Join(clientRes.writes, <<>>))

\* The upstream stream holds a line that the per-line rule rewrites.
HasToolUseStartLine ==
    LET text == DecodeUtf8(upstreamRes.bytes)
        events == Split(text, S_LFLF)
    IN  \E i \in 1..Len(events) :
          \E k \in 1..Len(Split(events[i], S_LF)) :
            IsToolUseStartLine(Split(events[i], S_LF)[k])

\* C12: after a normal end of a stream without a tool_use content_block_start
\* line, the bytes written to the client are the bytes received from
\* upstream: nothing added, nothing dropped, a buffered partial event included.
C12_ByteForByte ==
    upstreamRes.state = "ended" /\ ~HasToolUseStartLine =>
        WrittenBytes = upstreamRes.bytes

-----------------------------------------------------------------------------
(* transform.ts: transformResponseBody *)

\* The body of the loop over Object.keys(block.input): the new block.input[key].
repairValue(value) ==
    IF /\ IsString(value)
       /\ (StartsWith(value[2], <<"[">>) \/ StartsWith(value[2], <<"{">>))
    THEN LET r == JSONparse(value[2])
         IN  IF r[1] = "ok" THEN r[2] ELSE value          \* catch: keep the value
    ELSE value

\* for (const key of Object.keys(block.input)) on a mapping or on an array
\* (typeof [] is "object", and its keys are its indices).
repairInput(input) ==
    IF IsArray(input)
    THEN Arr([i \in 1..Len(input[2]) |-> repairValue(input[2][i])])
    ELSE Obj([i \in 1..Len(input[2]) |-> <<input[2][i][1], repairValue(input[2][i][2])>>])

\* Mutant of repairBlock: the test of the block's type is missing.
repairBlock_anyType(block) ==
    IF \/ IsNullish(block)
       \/ ~Truthy(Get(block, S_input))
       \/ ~IsObject(Get(block, S_input))
    THEN block
    ELSE Put(block, S_input, repairInput(Get(block, S_input)))

\* The forEach callback.
repairBlock(block) ==
    IF \/ IsNullish(block)                               \* block?.type is undefined
       \/ Get(block, S_type) # Str(S_tool_use)
       \/ ~Truthy(Get(block, S_input))
       \/ ~IsObject(Get(block, S_input))
    THEN block
    ELSE Put(block, S_input, repairInput(Get(block, S_input)))

transformResponseBody(b) ==
    IF ~Truthy(b) \/ ~IsArray(Get(b, S_content))
    THEN b
    ELSE Put(b, S_content, Arr([i \in 1..Len(Get(b, S_content)[2]) |->
                                  repairBlock(Get(b, S_content)[2][i])]))

\* output = JSON.stringify(transformResponseBody(JSON.parse(raw))): the repair
\* of the parsed response, and once more on its own result.
Repair ==
    /\ pc \in {"response", "repaired"}
    /\ body' = transformResponseBody(body)
    /\ pc' = IF pc = "response" THEN "repaired" ELSE "repairedAgain"
    /\ UNCHANGED <<parsed, upstreamBody, clientRes, upstreamRes, buffer, decoded,
                   resolved, line, transformed>>

-----------------------------------------------------------------------------
(* The upstream responses the repair is run on. *)

MaxInputKeys == 2
MaxBlocks == 2

S_tool_result == <<"t","o","o","l","_","r","e","s","u","l","t">>
S_message == <<"m","e","s","s","a","g","e">>
S_args == <<"a","r","g","s">>
S_path == <<"p","a","t","h">>
S_items == <<"i","t","e","m","s">>
V_array == <<"[","1",",","2",",","3","]">>
V_object == <<"{","\"","a","\"",":","\"","[","1","]","\"","}">>
V_truncated == <<"[","1",",","2">>
V_plain == <<"h","e","l","l","o">>
V_inner == <<"[","1","]">>

InputKeys == <<S_args, S_path, S_items, S_name>>

\* A stringified array, a stringified mapping that holds a stringified array,
\* a truncated array, a plain string, and an array that holds a stringified
\* array.
InputValues ==
    {Str(V_array), Str(V_object), Str(V_truncated), Str(V_plain), Arr(<<Str(V_inner)>>)}

Inputs ==
    {Obj([i \in 1..Len(vals) |-> <<InputKeys[i], vals[i]>>]) :
        vals \in SeqsUpTo(InputValues, MaxInputKeys)}
    \cup {Arr(<<Str(V_inner), Str(V_plain)>>), Str(V_array), Null, Num(0)}

ToolUse(input) ==
    Obj(<< <<S_type, Str(S_tool_use)>>, <<S_name, Str(S_bash)>>, <<S_input, input>> >>)

OtherBlocks ==
    {Null,
     Str(S_tool_use),
     Obj(<< <<S_type, Str(S_text)>>, <<S_text, Str(V_array)>> >>),
     Obj(<< <<S_type, Str(S_tool_result)>>, <<S_input, Obj(<< <<S_args, Str(V_array)>> >>)>> >>),
     Obj(<< <<S_type, Str(S_tool_use)>>, <<S_name, Str(V_array)>> >>)}

BlockChoices == OtherBlocks \cup {ToolUse(input) : input \in Inputs}

\* One block of any kind, before or after up to MaxBlocks - 1 other blocks.
Contents ==
    {<<>>} \cup
    UNION {{others \o <<b>>, <<b>> \o others} :
             others \in SeqsUpTo(OtherBlocks, MaxBlocks - 1), b \in BlockChoices}

ResponseOf(content) ==
    Obj(<< <<S_type, Str(S_message)>>, <<S_role, Str(S_assistant)>>, <<S_content, content>> >>)

Responses ==
    {ResponseOf(Arr(c)) : c \in Contents}
    \cup {Null, Bool(FALSE), Str(V_array), Arr(<<ToolUse(Obj(<< <<S_args, Str(V_array)>> >>))>>),
          ResponseOf(Str(V_array)), Obj(<< <<S_input, Str(V_array)>> >>)}

InitRepair ==
    /\ parsed \in Responses
    /\ body = parsed
    /\ pc = "response"
    /\ upstreamBody = Idle
    /\ clientRes = Idle
    /\ upstreamRes = Idle
    /\ buffer = Idle
    /\ decoded = Idle
    /\ resolved = 0
    /\ line = Idle
    /\ transformed = Idle

SpecRepair == InitRepair /\ [][Repair]_vars

-----------------------------------------------------------------------------
(* Claims about the response repair *)

\* A string that begins with "[" or "{" and parses as JSON.
Repairable(v) ==
    /\ IsString(v)
    /\ v[2] # <<>>
    /\ v[2][1] \in {"[", "{"}
    /\ JSONparse(v[2])[1] = "ok"

RepairedValue(v) == IF Repairable(v) THEN JSONparse(v[2])[2] ELSE v

\* The block is a tool_use block whose input holds values: a mapping, or, when
\* sequences count as well, a sequence.
HoldsInput(block, sequencesToo) ==
    /\ IsPlainObject(block)
    /\ Get(block, S_type) = Str(S_tool_use)
    /\ \/ IsPlainObject(Get(block, S_input))
       \/ sequencesToo /\ IsArray(Get(block, S_input))

\* after is before with every repairable value that sits directly in the
\* input replaced by its parsed structure, and nothing else changed.
InputRepaired(before, after) ==
    /\ after[1] = before[1]
    /\ Len(after[2]) = Len(before[2])
    /\ \A k \in 1..Len(before[2]) :
         IF IsArray(before)
         THEN after[2][k] = RepairedValue(before[2][k])
         ELSE after[2][k] = <<before[2][k][1], RepairedValue(before[2][k][2])>>

BlockRepaired(before, after, sequencesToo) ==
    IF HoldsInput(before, sequencesToo)
    THEN /\ IsPlainObject(after)
         /\ Len(after[2]) = Len(before[2])
         /\ \A k \in 1..Len(before[2]) :
              IF before[2][k][1] = S_input
              THEN /\ after[2][k][1] = S_input
                   /\ InputRepaired(before[2][k][2], after[2][k][2])
              ELSE after[2][k] = before[2][k]
    ELSE after = before

BodyRepaired(before, after, sequencesToo) ==
    IF IsPlainObject(before) /\ IsArray(Get(before, S_content))
    THEN /\ IsPlainObject(after)
         /\ Len(after[2]) = Len(before[2])
         /\ \A k \in 1..Len(before[2]) :
              IF before[2][k][1] = S_content
              THEN /\ after[2][k][1] = S_content
                   /\ IsArray(after[2][k][2])
                   /\ Len(after[2][k][2][2]) = Len(before[2][k][2][2])
                   /\ \A i \in 1..Len(before[2][k][2][2]) :
                        BlockRepaired(before[2][k][2][2][i], after[2][k][2][2][i],
                                      sequencesToo)
              ELSE after[2][k] = before[2][k]
    ELSE after = before

\* C13, as stated: after one application of the repair, and still after a
\* second one, the body is the parsed response with only the repairable
\* strings that sit directly in a tool_use block's input mapping replaced by
\* their parsed structure; every other value, every other block and every
\* body of another shape is unchanged.
C13_RepairsOnlyInputMapping ==
    pc \in {"repaired", "repairedAgain"} => BodyRepaired(parsed, body, FALSE)

\* C13, amended: the same, where the input of a tool_use block is a mapping
\* or a sequence; the elements of a sequence are repaired like the values of
\* a mapping.
C13_RepairsOnlyInput ==
    pc \in {"repaired", "repairedAgain"} => BodyRepaired(parsed, body, TRUE)

\* The repair has run twice on a tool_use block whose input held a
\* stringified array and a truncated one: the first is now the array
\* [1,2,3], the second is still the string.
C13_Witness ==
    /\ pc = "repairedAgain"
    /\ parsed = ResponseOf(Arr(<<ToolUse(Obj(<< <<S_args, Str(V_array)>>,
                                              <<S_path, Str(V_truncated)>> >>))>>))
    /\ body = ResponseOf(Arr(<<ToolUse(Obj(<< <<S_args, Arr(<<Num(1), Num(2), Num(3)>>)>>,
                                            <<S_path, Str(V_truncated)>> >>))>>))

=============================================================================
